---- MODULE Spec2Model ----
(***************************************************************************)
(* Model of prctlmodule.c: the Python 2 extension module "prctl".          *)
(*                                                                         *)
(* One call of prctl(option, [value]) is one step.  The state is what a     *)
(* call can observe or change: the calling process's kernel attributes,    *)
(* the C library's errno, and the outcome of the last call (returned       *)
(* object, error indicator, the syscalls it issued).                       *)
(***************************************************************************)
EXTENDS Integers, Sequences, FiniteSets, TLC

VARIABLES
    have_PR_GET_ENDIAN, \* build: <sys/prctl.h> defines PR_GET_ENDIAN (#ifdef, line 79)
    kernel,             \* the calling process's attributes, owned by the kernel
    errno,              \* the C library's errno
    last,               \* the last call of py_prctl: arguments and outcome
    ncalls              \* number of calls made so far

vars == <<have_PR_GET_ENDIAN, kernel, errno, last, ncalls>>

(***************************************************************************)
(* Bounds of the model.                                                    *)
(***************************************************************************)
MaxCalls == 2       \* calls of prctl() in one behaviour
LongBits == 8       \* width of C long / unsigned long, scaled down
MaxNameLen == 16    \* longest text value passed for NAME

\* long long is twice as wide as long (the ILP32 ratio), so that both the
\* narrowing of a long long to unsigned long and the overflow of a Python
\* long beyond long long occur.
LongLongBits == 2 * LongBits

RECURSIVE Pow2(_)
Pow2(n) == IF n = 0 THEN 1 ELSE 2 * Pow2(n - 1)

LLONG_MIN == 0 - Pow2(LongLongBits - 1)
LLONG_MAX == Pow2(LongLongBits - 1) - 1

(***************************************************************************)
(* The option table (lines 60-100).                                        *)
(***************************************************************************)
PR_PDEATHSIG == 0
PR_DUMPABLE == 1
PR_UNALIGN == 2
PR_KEEPCAPS == 3
PR_FPEMU == 4
PR_FPEXC == 5
PR_TIMING == 6
PR_NAME == 7
PR_ENDIAN == 8

MIN_ENTRY == PR_PDEATHSIG
MAX_ENTRY == IF have_PR_GET_ENDIAN THEN PR_ENDIAN ELSE PR_NAME

MAX_LEN == 1024

\* The kernel's option codes, from <sys/prctl.h>.
PR_SET_PDEATHSIG == 1
PR_GET_PDEATHSIG == 2
PR_GET_DUMPABLE == 3
PR_SET_DUMPABLE == 4
PR_GET_UNALIGN == 5
PR_SET_UNALIGN == 6
PR_GET_KEEPCAPS == 7
PR_SET_KEEPCAPS == 8
PR_GET_FPEMU == 9
PR_SET_FPEMU == 10
PR_GET_FPEXC == 11
PR_SET_FPEXC == 12
PR_GET_TIMING == 13
PR_SET_TIMING == 14
PR_SET_NAME == 15
PR_GET_NAME == 16
PR_GET_ENDIAN == 19
PR_SET_ENDIAN == 20

table_entry(name, get, set) == [name |-> name, get |-> get, set |-> set]

\* Sequences are 1-based: entry i of the C array is _option_table[i + 1].
_option_table ==
    << table_entry("PDEATHSIG", PR_GET_PDEATHSIG, PR_SET_PDEATHSIG),
       table_entry("DUMPABLE", PR_GET_DUMPABLE, PR_SET_DUMPABLE),
       table_entry("UNALIGN", PR_GET_UNALIGN, PR_SET_UNALIGN),
       table_entry("KEEPCAPS", PR_GET_KEEPCAPS, PR_SET_KEEPCAPS),
       table_entry("FPEMU", PR_GET_FPEMU, PR_SET_FPEMU),
       table_entry("FPEXC", PR_GET_FPEXC, PR_SET_FPEXC),
       table_entry("TIMING", PR_GET_TIMING, PR_SET_TIMING),
       table_entry("NAME", PR_GET_NAME, PR_SET_NAME) >>
    \o (IF have_PR_GET_ENDIAN
        THEN << table_entry("ENDIAN", PR_GET_ENDIAN, PR_SET_ENDIAN) >>
        ELSE << >>)
    \o << table_entry("NULL", 0, 0) >>

\* Mutant of GetCode: the get path reads the entry's set code.
GetCodeSwapped(option) == _option_table[option + 1].set

GetCode(option) == _option_table[option + 1].get
SetCode(option) == _option_table[option + 1].set

(***************************************************************************)
(* Python objects and the error indicator.                                 *)
(***************************************************************************)
PyObj(t, n, s) == [t |-> t, n |-> n, s |-> s]
NULL == PyObj("NULL", 0, << >>)
Py_None == PyObj("None", 0, << >>)
PyInt_FromLong(n) == PyObj("int", n, << >>)
PyLong(n) == PyObj("long", n, << >>)
PyString(s) == PyObj("str", 0, s)
PyUnicode(s) == PyObj("unicode", 0, s)

PyString_Check(v) == v.t = "str"
PyUnicode_Check(v) == v.t = "unicode"
PyInt_Check(v) == v.t = "int"
PyLong_Check(v) == v.t = "long"

PyErr(type, e) == [type |-> type, errno |-> e]
NoError == PyErr("none", 0)
PyErr_SetString(type) == PyErr(type, 0)
\* Mutant of PyErr_SetFromErrno: the error is raised without the errno.
PyErr_SetNoErrno(e) == PyErr("PrctlError", 0)
PyErr_SetFromErrno(e) == PyErr("PrctlError", e)

EPERM == 1
EFAULT == 14
EINVAL == 22

(***************************************************************************)
(* Conversions between Python objects, C values and bytes.                 *)
(***************************************************************************)
Min(S) == CHOOSE x \in S : \A y \in S : x <= y

Rep(b, n) == [i \in 1..n |-> b]

\* (unsigned long)v of a signed C integer v.
ToUnsignedLong(v) == v % Pow2(LongBits)

\* PyInt_AS_LONG: the C long a Python int holds.
PyInt_AS_LONG(value) == value.n

\* PyLong_AsLongLong: the value, or -1 with OverflowError set when the
\* Python long does not fit a long long.
PyLong_AsLongLong(value) ==
    IF LLONG_MIN <= value.n /\ value.n <= LLONG_MAX
    THEN [val |-> value.n, err |-> NoError]
    ELSE [val |-> 0 - 1, err |-> PyErr_SetString("OverflowError")]

\* The UTF-8 bytes of one code point (below 65536).
Utf8(c) ==
    IF c < 128 THEN << c >>
    ELSE IF c < 2048 THEN << 192 + (c \div 64), 128 + (c % 64) >>
    ELSE << 224 + (c \div 4096), 128 + ((c \div 64) % 64), 128 + (c % 64) >>

RECURSIVE Utf8Encode(_)
Utf8Encode(s) == IF s = << >> THEN << >> ELSE Utf8(Head(s)) \o Utf8Encode(Tail(s))

\* A string object on the heap: its bytes and its reference count.
NewString(s) == [bytes |-> s, refcnt |-> 1]
PyUnicode_AsUTF8String(value) == NewString(Utf8Encode(value.s))
Py_DECREF(obj) == [obj EXCEPT !.refcnt = @ - 1]

\* PyString_AS_STRING: the address of a string object's bytes, cast to
\* unsigned long.  mem is what the address points at, live whether the
\* object owning those bytes still exists.
PointerTo(obj) == [ptr |-> TRUE, n |-> 0, mem |-> obj.bytes, live |-> obj.refcnt > 0]
IntegerArg(n) == [ptr |-> FALSE, n |-> n, mem |-> << >>, live |-> TRUE]

\* The bytes of a C string: those before the first NUL.
CString(s) ==
    LET nul == {i \in 1..Len(s) : s[i] = 0}
    IN  IF nul = {} THEN s ELSE SubSeq(s, 1, Min(nul) - 1)

\* char arg[MAX_LEN] after memset(arg, 0, MAX_LEN) and after the kernel wrote
\* `written` at its start: byte i (1-based) of the buffer.
BufByte(written, i) == IF i <= Len(written) THEN written[i] ELSE 0

\* *(int *)arg: the first sizeof(int) = 4 bytes as a signed integer (the
\* platform's byte order, here least significant byte first).
IntAt(written) ==
    LET b4 == BufByte(written, 4)
    IN  BufByte(written, 1) + 256 * BufByte(written, 2) + 65536 * BufByte(written, 3)
        + 16777216 * (IF b4 >= 128 THEN b4 - 256 ELSE b4)

\* PyString_FromString(arg): the bytes up to the first NUL of the buffer.
PyString_FromString(written) ==
    PyString(CString([i \in 1..Min({Len(written) + 1, MAX_LEN}) |-> BufByte(written, i)]))

(***************************************************************************)
(* The kernel side of prctl(2), as far as the module's calls reach it.     *)
(***************************************************************************)
TASK_COMM_LEN == 16
NSIG == 64

\* put_user(v, (int *)arg2): the bytes of an int, same byte order as IntAt.
PutUserInt(v) ==
    << v % 256, (v \div 256) % 256, (v \div 65536) % 256, (v \div 16777216) % 256 >>

\* What may be found at the address of a released object.
FreedMemory == { << >>, << 222, 173 >> }

\* The outcomes of prctl(code, arg) for a process with attributes k: the
\* return value, the errno it sets when negative, the attributes after it
\* and the bytes it wrote to the user buffer.
sys_prctl(k, code, arg) ==
    LET fail(e) == [result |-> 0 - 1, err |-> e, kernel |-> k, written |-> << >>]
        ok(r, k2, w) == [result |-> r, err |-> 0, kernel |-> k2, written |-> w]
        store(a) == [k EXCEPT ![a] = arg.n]
        comm(m) == SubSeq(CString(m), 1, Min({Len(CString(m)), TASK_COMM_LEN - 1}))
    IN  CASE code = PR_SET_PDEATHSIG ->
               IF arg.n <= NSIG THEN {ok(0, store("pdeathsig"), << >>)} ELSE {fail(EINVAL)}
          [] code = PR_GET_PDEATHSIG -> {ok(0, k, PutUserInt(k.pdeathsig))}
          [] code = PR_SET_DUMPABLE ->
               IF arg.n \in {0, 1} THEN {ok(0, store("dumpable"), << >>)} ELSE {fail(EINVAL)}
          [] code = PR_GET_DUMPABLE -> {ok(k.dumpable, k, << >>)}
          [] code = PR_SET_KEEPCAPS ->
               IF arg.n \in {0, 1}
               THEN {ok(0, store("keepcaps"), << >>), fail(EPERM)}
               ELSE {fail(EINVAL)}
          [] code = PR_GET_KEEPCAPS -> {ok(k.keepcaps, k, << >>)}
          [] code = PR_SET_TIMING ->
               IF arg.n = 0 THEN {ok(0, k, << >>)} ELSE {fail(EINVAL)}
          [] code = PR_GET_TIMING -> {ok(0, k, << >>)}
          \* architecture hooks: implemented, or -EINVAL
          [] code = PR_SET_UNALIGN -> {ok(0, store("unalign"), << >>), fail(EINVAL)}
          [] code = PR_GET_UNALIGN -> {ok(0, k, PutUserInt(k.unalign)), fail(EINVAL)}
          [] code = PR_SET_FPEMU -> {ok(0, store("fpemu"), << >>), fail(EINVAL)}
          [] code = PR_GET_FPEMU -> {ok(0, k, PutUserInt(k.fpemu)), fail(EINVAL)}
          [] code = PR_SET_FPEXC -> {ok(0, store("fpexc"), << >>), fail(EINVAL)}
          [] code = PR_GET_FPEXC -> {ok(0, k, PutUserInt(k.fpexc)), fail(EINVAL)}
          [] code = PR_SET_ENDIAN -> {ok(0, store("endian"), << >>), fail(EINVAL)}
          [] code = PR_GET_ENDIAN -> {ok(0, k, PutUserInt(k.endian)), fail(EINVAL)}
          [] code = PR_SET_NAME ->
               IF arg.live
               THEN {ok(0, [k EXCEPT !.comm = comm(arg.mem)], << >>)}
               ELSE {ok(0, [k EXCEPT !.comm = comm(m)], << >>) : m \in {arg.mem} \cup FreedMemory}
                    \cup {fail(EFAULT)}
          [] code = PR_GET_NAME ->
               {ok(0, k, k.comm \o Rep(0, TASK_COMM_LEN - Len(k.comm)))}
          [] OTHER -> {fail(EINVAL)}

(***************************************************************************)
(* The arguments a caller may pass.                                        *)
(***************************************************************************)
NameLens == {1, TASK_COMM_LEN - 1, MaxNameLen}

IntValues == {0 - 1, 0, 1}

LongValues ==
    {1, Pow2(LongBits) + 1, LLONG_MAX + 1, LLONG_MIN - 2}

StrValues == {Rep(65, n) : n \in NameLens} \cup { << 65, 0, 66 >> }

UnicodeValues == { << 66, 8364 >>, Rep(233, (MaxNameLen + 1) \div 2) }

\* Every object passed as value; NULL is "no value argument".
Values ==
    {PyInt_FromLong(n) : n \in IntValues} \cup {PyLong(n) : n \in LongValues}
    \cup {PyString(s) : s \in StrValues} \cup {PyUnicode(s) : s \in UnicodeValues}
    \cup {Py_None}

\* Every object passed as option: integers around the table's range, and
\* objects that are no integer.
OptionObjects ==
    {PyInt_FromLong(n) : n \in (MIN_ENTRY - 1)..(PR_ENDIAN + 2)} \cup {Py_None}

(***************************************************************************)
(* The module's functions.                                                 *)
(***************************************************************************)
\* PyArg_ParseTuple(args, "i|O", &option, &value), line 184.
PyArg_ParseTuple(optObj) ==
    IF PyInt_Check(optObj) \/ PyLong_Check(optObj)
    THEN [ok |-> TRUE, option |-> optObj.n, err |-> NoError]
    ELSE [ok |-> FALSE, option |-> 0, err |-> PyErr_SetString("TypeError")]

\* Mutant of InvalidOption: the upper bound is off by one, so the table's
\* sentinel entry passes.
InvalidOptionPastEnd(option) == option < MIN_ENTRY \/ option > MAX_ENTRY + 1

\* The range check of py_prctl, line 187.
InvalidOption(option) == option < MIN_ENTRY \/ option > MAX_ENTRY

\* Mutant of SetArg: the type error is set but the function does not return,
\* and the syscall goes ahead.
SetArgNoReturn(option, value) ==
    [ok |-> TRUE, arg |-> IntegerArg(0), pending |-> PyErr_SetString("TypeError")]

\* The switch of _set_prctl, lines 107-137: the syscall's argument, or a
\* type error; pending is the error indicator the conversion leaves set.
SetArg(option, value) ==
    LET typeError ==
            [ok |-> FALSE, arg |-> IntegerArg(0), pending |-> PyErr_SetString("TypeError")]
        marshal(arg, pending) == [ok |-> TRUE, arg |-> arg, pending |-> pending]
    IN  IF option = PR_NAME
        THEN IF PyString_Check(value)
             THEN marshal(PointerTo(NewString(value.s)), NoError)
             ELSE IF PyUnicode_Check(value)
             THEN \* arg is taken from the new string, which is then released
                  LET utf8 == PyUnicode_AsUTF8String(value)
                      arg == PointerTo(utf8)
                  IN  marshal([arg EXCEPT !.live = Py_DECREF(utf8).refcnt > 0], NoError)
             ELSE typeError
        ELSE IF PyInt_Check(value)
             THEN marshal(IntegerArg(ToUnsignedLong(PyInt_AS_LONG(value))), NoError)
             ELSE IF PyLong_Check(value)
             THEN LET ll == PyLong_AsLongLong(value)
                  IN  marshal(IntegerArg(ToUnsignedLong(ll.val)), ll.err)
             ELSE typeError

\* Mutant of GetOutput: no switch on the option, every get returns the
\* syscall's return value.
GetOutputRaw(option, result, written) == PyInt_FromLong(result)

\* Mutant of GetOutput: every integer option is decoded from the buffer.
GetOutputFromBuffer(option, result, written) ==
    IF option = PR_NAME THEN PyString_FromString(written)
    ELSE PyInt_FromLong(IntAt(written))

\* How _get_prctl turns a successful syscall into its result, lines 164-176.
GetOutput(option, result, written) ==
    IF option = PR_PDEATHSIG THEN PyInt_FromLong(IntAt(written))
    ELSE IF option = PR_NAME THEN PyString_FromString(written)
    ELSE PyInt_FromLong(result)

\* One issued syscall, as the call's record keeps it.
Syscall(code, arg, out) ==
    [code |-> code, arg |-> arg, result |-> out.result, err |-> out.err,
     written |-> out.written]

\* The call's outcome: what it returned and the error indicator it left.
Return(optObj, value, parsed, ret, err, calls) ==
    /\ last' = [optObj |-> optObj, value |-> value, parsed |-> parsed, ret |-> ret,
                err |-> err, calls |-> calls]
    /\ ncalls' = ncalls + 1

\* The errno after a syscall with outcome out.
ErrnoAfter(out) == IF out.result < 0 THEN out.err ELSE errno

_set_prctl(optObj, option, value) ==
    LET m == SetArg(option, value)
    IN  IF ~m.ok
        THEN /\ Return(optObj, value, TRUE, NULL, m.pending, << >>)
             /\ UNCHANGED <<kernel, errno>>
        ELSE \E out \in sys_prctl(kernel, SetCode(option), m.arg) :
                /\ kernel' = out.kernel
                /\ errno' = ErrnoAfter(out)
                /\ IF out.result < 0
                   THEN Return(optObj, value, TRUE, NULL, PyErr_SetFromErrno(errno'),
                               << Syscall(SetCode(option), m.arg, out) >>)
                   ELSE Return(optObj, value, TRUE, Py_None, m.pending,
                               << Syscall(SetCode(option), m.arg, out) >>)

\* The address of the local buffer arg[MAX_LEN].
BufferArg == [ptr |-> TRUE, n |-> 0, mem |-> << >>, live |-> TRUE]

_get_prctl(optObj, option) ==
    \E out \in sys_prctl(kernel, GetCode(option), BufferArg) :
        /\ kernel' = out.kernel
        /\ errno' = ErrnoAfter(out)
        /\ IF out.result < 0
           THEN Return(optObj, NULL, TRUE, NULL, PyErr_SetFromErrno(errno'),
                       << Syscall(GetCode(option), BufferArg, out) >>)
           ELSE Return(optObj, NULL, TRUE, GetOutput(option, out.result, out.written),
                       NoError, << Syscall(GetCode(option), BufferArg, out) >>)

py_prctl(optObj, value) ==
    LET a == PyArg_ParseTuple(optObj)
    IN  IF ~a.ok
        THEN /\ Return(optObj, value, FALSE, NULL, a.err, << >>)
             /\ UNCHANGED <<kernel, errno>>
        ELSE IF InvalidOption(a.option)
        THEN /\ Return(optObj, value, TRUE, NULL, PyErr_SetString("ValueError"), << >>)
             /\ UNCHANGED <<kernel, errno>>
        ELSE IF value # NULL
        THEN _set_prctl(optObj, a.option, value)
        ELSE _get_prctl(optObj, a.option)

(***************************************************************************)
(* The state machine.                                                      *)
(***************************************************************************)
InitKernel ==
    [pdeathsig |-> 0, dumpable |-> 1, unalign |-> 0, keepcaps |-> 0, fpemu |-> 0,
     fpexc |-> 0, endian |-> 0, comm |-> << 112, 121 >>]

NoCall ==
    [optObj |-> NULL, value |-> NULL, parsed |-> FALSE, ret |-> NULL, err |-> NoError,
     calls |-> << >>]

Init ==
    /\ have_PR_GET_ENDIAN \in BOOLEAN
    /\ kernel = InitKernel
    /\ errno = 0
    /\ last = NoCall
    /\ ncalls = 0

Call ==
    /\ ncalls < MaxCalls
    /\ \E optObj \in OptionObjects, value \in Values \cup {NULL} : py_prctl(optObj, value)
    /\ UNCHANGED have_PR_GET_ENDIAN

Next == Call

Spec == Init /\ [][Next]_vars

(***************************************************************************)
(* What the properties below read from a call's record.                    *)
(***************************************************************************)
TableCodes(field) == {_option_table[i][field] : i \in (MIN_ENTRY + 1)..(MAX_ENTRY + 1)}

InRange(c) == c.parsed /\ MIN_ENTRY <= c.optObj.n /\ c.optObj.n <= MAX_ENTRY
OutOfRange(c) == c.parsed /\ (c.optObj.n < MIN_ENTRY \/ c.optObj.n > MAX_ENTRY)
IsGet(c) == InRange(c) /\ c.value = NULL
IsSet(c) == InRange(c) /\ c.value # NULL
IsText(v) == v.t \in {"str", "unicode"}
IsInteger(v) == v.t \in {"int", "long"}
TypeMatches(c) == IF c.optObj.n = PR_NAME THEN IsText(c.value) ELSE IsInteger(c.value)
Raised(c, type) == c.ret = NULL /\ c.err.type = type
Succeeded(c) == c.ret # NULL

\* C1: an option index below MIN_ENTRY or above MAX_ENTRY (the sentinel's
\* index included), with or without a value, fails with the invalid-option
\* error (ValueError), issues no syscall and leaves the kernel's attributes
\* (and errno) as they were.
C1_InvalidOptionRejected ==
    [][OutOfRange(last') =>
          /\ Raised(last', "ValueError")
          /\ last'.calls = << >>
          /\ kernel' = kernel
          /\ errno' = errno]_vars

\* The sentinel's index was passed together with a value, after a call that
\* changed the process name.
C1_Witness ==
    /\ OutOfRange(last)
    /\ last.optObj.n = MAX_ENTRY + 1
    /\ last.value # NULL
    /\ kernel.comm # InitKernel.comm

\* C2: a set on a valid option with a value of the wrong type (no text for
\* NAME, no integer for any other option) fails with the type-mismatch error
\* (TypeError), issues no syscall and leaves the kernel's attributes as they
\* were.
C2_TypeMismatchRejected ==
    [][(IsSet(last') /\ ~TypeMatches(last')) =>
          /\ Raised(last', "TypeError")
          /\ last'.calls = << >>
          /\ kernel' = kernel
          /\ errno' = errno]_vars

\* A text value was passed for an integer option.
C2_Witness ==
    /\ IsSet(last)
    /\ last.optObj.n = PR_KEEPCAPS
    /\ IsText(last.value)
    /\ Raised(last, "TypeError")

\* C3: a call on a valid option that passes validation issues exactly one
\* syscall: with the entry's get code when no value is given, with the
\* entry's set code when a value (of the right type) is given; a get never
\* uses a set code, a set never a get code.
C3_OneSyscallWithTheEntrysCode ==
    /\ IsGet(last) =>
          /\ Len(last.calls) = 1
          /\ last.calls[1].code = _option_table[last.optObj.n + 1].get
          /\ last.calls[1].code \notin TableCodes("set")
    /\ (IsSet(last) /\ TypeMatches(last)) =>
          /\ Len(last.calls) = 1
          /\ last.calls[1].code = _option_table[last.optObj.n + 1].set
          /\ last.calls[1].code \notin TableCodes("get")

\* A get of NAME was issued with PR_GET_NAME right after a set of it.
C3_Witness ==
    /\ IsGet(last)
    /\ last.optObj.n = PR_NAME
    /\ last.calls[1].code = PR_GET_NAME
    /\ kernel.comm # InitKernel.comm

C5_ErrnoPropagated ==
    (InRange(last) /\ last.calls # << >>) =>
        /\ Len(last.calls) = 1
        /\ last.calls[1].result < 0 =>
              /\ Raised(last, "PrctlError")
              /\ last.err.errno = last.calls[1].err
              /\ last.err.errno = errno
        /\ (last.calls[1].result >= 0 /\ last.value # NULL) => last.ret = Py_None

\* A set failed with EPERM after an earlier call had changed an attribute.
C5_Witness ==
    /\ InRange(last)
    /\ Raised(last, "PrctlError")
    /\ last.err.errno = EPERM
    /\ kernel.unalign # InitKernel.unalign

\* C7: a successful set of v in {0, 1} on a boolean-like option (KEEPCAPS,
\* DUMPABLE) followed at once by a get of the same option returns v.
C7_BooleanRoundTrip ==
    [][(/\ IsSet(last) /\ Succeeded(last)
        /\ last.optObj.n \in {PR_KEEPCAPS, PR_DUMPABLE}
        /\ IsInteger(last.value) /\ last.value.n \in {0, 1}
        /\ IsGet(last') /\ last'.optObj.n = last.optObj.n
        /\ Succeeded(last'))
       => last'.ret = PyInt_FromLong(last.value.n)]_vars

\* KEEPCAPS was set to 1 and the get that followed returned.
C7_Witness ==
    /\ IsGet(last)
    /\ last.optObj.n = PR_KEEPCAPS
    /\ Succeeded(last)
    /\ kernel.keepcaps = 1

\* C6: for NAME and a text value (byte string or unicode, without NUL) of
\* length L, a successful set followed at once by a get returns the first
\* min(L, kernel limit) bytes of the value's UTF-8 bytes.
C6_NameRoundTrip ==
    [][(/\ IsSet(last) /\ Succeeded(last) /\ last.optObj.n = PR_NAME
        /\ IsText(last.value)
        /\ \A i \in 1..Len(last.value.s) : last.value.s[i] # 0
        /\ IsGet(last') /\ last'.optObj.n = PR_NAME /\ Succeeded(last'))
       => LET bytes == IF last.value.t = "unicode"
                       THEN Utf8Encode(last.value.s) ELSE last.value.s
          IN  last'.ret =
                 PyString(SubSeq(bytes, 1, Min({Len(bytes), TASK_COMM_LEN - 1})))]_vars

\* C8: every call ends either with a returned value and no error pending, or
\* with no returned value and an error raised; a failed call changed no
\* kernel attribute.
C8_NoPartialFailure ==
    [][/\ \/ last'.ret # NULL /\ last'.err = NoError
          \/ last'.ret = NULL /\ last'.err # NoError
       /\ last'.ret = NULL => kernel' = kernel]_vars

\* C9: a set of an integer v, fixed-width or arbitrary-precision, on an
\* option other than NAME is accepted and passes v mod 2^w to the syscall.
C9_IntegerNarrowed ==
    (IsSet(last) /\ last.optObj.n # PR_NAME /\ IsInteger(last.value)) =>
        /\ Len(last.calls) = 1
        /\ last.calls[1].arg.n = last.value.n % Pow2(LongBits)
        /\ last.err.type \in {"none", "PrctlError"}

\* C10: the buffer whose address a NAME set passes to the syscall is a live
\* object when the syscall is issued.
C10_NameBufferLive ==
    (IsSet(last) /\ last.optObj.n = PR_NAME /\ IsText(last.value)) =>
        \A i \in 1..Len(last.calls) : last.calls[i].arg.live

====
